---- MODULE Spec2Model ----
(***************************************************************************)
(* HttpRequest (src/src/httprequest.rs): a cheaply clonable handle over a  *)
(* shared RequestContext.  The context is one set of variables (the fields *)
(* of msg.inner); handles are numbered 1..handles and all of them point to *)
(* that one context (Rc<RequestContext>).                                  *)
(*                                                                         *)
(* Strings are sequences of one-character strings, so that starts_with,    *)
(* split, trim and the URL parser can be computed as the code computes     *)
(* them.                                                                   *)
(***************************************************************************)
EXTENDS Integers, Sequences, FiniteSets, TLC

VARIABLES
    inner_headers,     \* msg.inner.headers: [cookie: Seq(String), host: Seq(String)]
    inner_url,         \* msg.inner.url: the request target
    inner_method,      \* msg.inner.method
    inner_version,     \* msg.inner.version
    inner_addr,        \* msg.inner.addr
    inner_params,      \* msg.inner.params
    inner_payload,     \* msg.inner.payload: RefCell<Option<Payload>>
    inner_extensions,  \* msg.inner.extensions: one slot per private type tag
    router,            \* state.router
    handles,           \* number of live HttpRequest values sharing msg
    taken,             \* what each payload() call returned, in call order
    last,              \* the last call (on whichever handle) and what it returned
    panicked           \* the calling task hit a panic and is unwinding

vars == <<inner_headers, inner_url, inner_method, inner_version, inner_addr,
          inner_params, inner_payload, inner_extensions, router, handles,
          taken, last, panicked>>

context_ro == <<inner_headers, inner_url, inner_method, inner_version,
                inner_addr, inner_params, router>>

(***************************************************************************)
(* Bounds of the model.                                                    *)
(***************************************************************************)
MaxHandles == 2
MaxTaken == 2

(***************************************************************************)
(* Option<T>.                                                              *)
(***************************************************************************)
None == [some |-> FALSE]
Some(v) == [some |-> TRUE, v |-> v]

(***************************************************************************)
(* Payload.  The stream supplied by the transport is "body";               *)
(* Payload::empty() is a fresh, already exhausted stream.                  *)
(***************************************************************************)
DefaultCapacity == 32768
Capacities == {1024, 65536}

PayloadEmpty == [id |-> "empty", cap |-> DefaultCapacity]
PayloadBody == [id |-> "body", cap |-> DefaultCapacity]

InitialPayload == Some(PayloadBody)

(***************************************************************************)
(* String helpers (str::starts_with, str::split, str::trim).               *)
(***************************************************************************)
RECURSIVE IndexOf(_, _, _)
\* the first index >= i of character c in s, 0 when there is none
IndexOf(s, c, i) ==
    IF i > Len(s) THEN 0
    ELSE IF s[i] = c THEN i
    ELSE IndexOf(s, c, i + 1)

starts_with(s, c) == Len(s) > 0 /\ s[1] = c

RECURSIVE Split(_, _)
\* str::split(c): the pieces between the occurrences of c, empty ones kept
Split(s, c) ==
    LET i == IndexOf(s, c, 1)
    IN  IF i = 0 THEN <<s>>
        ELSE <<SubSeq(s, 1, i - 1)>> \o Split(SubSeq(s, i + 1, Len(s)), c)

RECURSIVE TrimLeft(_)
TrimLeft(s) == IF starts_with(s, " ") THEN TrimLeft(Tail(s)) ELSE s

RECURSIVE TrimRight(_)
TrimRight(s) ==
    IF Len(s) > 0 /\ s[Len(s)] = " " THEN TrimRight(SubSeq(s, 1, Len(s) - 1))
    ELSE s

Trim(s) == TrimRight(TrimLeft(s))

RECURSIVE Concat(_)
\* the concatenation of a sequence of strings
Concat(ss) == IF ss = <<>> THEN <<>> ELSE Head(ss) \o Concat(Tail(ss))

(***************************************************************************)
(* The request target.  http::Uri keeps path and query and no fragment;    *)
(* Uri::query() is what follows the first '?', when there is one.          *)
(***************************************************************************)
Uris ==
    { <<"/">>,
      <<"/", "?", "i", "d", "=", "t">>,
      <<"/", "a", "?">>,
      <<"/", "?", "a", "=", "1", "&", "a", "=", "2">>,
      <<"/", "a", "?", "b", "?", "c">> }

uri_query(u) ==
    LET i == IndexOf(u, "?", 1)
    IN  IF i = 0 THEN None ELSE Some(SubSeq(u, i + 1, Len(u)))

uri_path(u) ==
    LET i == IndexOf(u, "?", 1)
    IN  IF i = 0 THEN u ELSE SubSeq(u, 1, i - 1)

\* a query_string that falls back to the whole target when there is no query
query_string_of_whole(u) == IF uri_query(u).some THEN uri_query(u).v ELSE u

\* HttpRequest::query_string
query_string_of(u) == IF uri_query(u).some THEN uri_query(u).v ELSE <<>>

(***************************************************************************)
(* Result<T, E>.                                                           *)
(***************************************************************************)
Ok(v) == [ok |-> TRUE, v |-> v]
Err(e) == [ok |-> FALSE, e |-> e]

(***************************************************************************)
(* The router (router.rs).  A resource pattern is a sequence of literal    *)
(* pieces and variables; a resource is internal (mounted under the         *)
(* router's prefix) or external (an absolute URL template).                *)
(***************************************************************************)
Str(s) == [var |-> FALSE, s |-> s]
Var == [var |-> TRUE, s |-> <<>>]

\* Resource::new("index", "/u/{name}.{ext}"), Resource::new("static", "/i"),
\* Resource::external("ext", "https://y/{id}"), Resource::external("bare", "y/w")
Routes ==
    [n \in {"index", "static", "ext", "bare"} |->
        CASE n = "index" ->
                [external |-> FALSE,
                 elements |-> <<Str(<<"/", "u", "/">>), Var, Str(<<".">>), Var>>]
          [] n = "static" ->
                [external |-> FALSE, elements |-> <<Str(<<"/", "i">>)>>]
          [] n = "ext" ->
                [external |-> TRUE,
                 elements |-> <<Str(<<"h", "t", "t", "p", "s", ":", "/", "/",
                                      "y", "/">>), Var>>]
          [] n = "bare" ->
                [external |-> TRUE, elements |-> <<Str(<<"y", "/", "w">>)>>]]

RouteNames == {"index", "static", "ext", "bare", "unknown"}

Prefixes == { <<>>, <<"/">>, <<"/", "p", "/">> }

RECURSIVE trim_right_slash(_)
trim_right_slash(s) ==
    IF Len(s) > 0 /\ s[Len(s)] = "/"
    THEN trim_right_slash(SubSeq(s, 1, Len(s) - 1))
    ELSE s

\* Router::new(prefix, routes): the prefix is kept without its trailing '/'
RouterNew(prefix, routes) ==
    [prefix |-> trim_right_slash(Trim(prefix)), routes |-> routes]

RECURSIVE Substitute(_, _)
\* the pattern with each variable replaced by the next value, in order
Substitute(elements, values) ==
    IF elements = <<>> THEN Ok(<<>>)
    ELSE IF Head(elements).var
    THEN IF values = <<>> THEN Err("NotEnoughElements")
         ELSE LET rest == Substitute(Tail(elements), Tail(values))
              IN  IF rest.ok THEN Ok(Head(values) \o rest.v) ELSE rest
    ELSE LET rest == Substitute(Tail(elements), values)
         IN  IF rest.ok THEN Ok(Head(elements).s \o rest.v) ELSE rest

\* Router::resource_path(name, elements)
resource_path(rt, name, elements) ==
    IF name \notin DOMAIN rt.routes THEN Err("ResourceNotFound")
    ELSE LET r == rt.routes[name]
             sub == Substitute(r.elements, elements)
         IN  IF ~sub.ok THEN sub
             ELSE IF r.external THEN sub
             ELSE Ok(rt.prefix \o sub.v)

(***************************************************************************)
(* ConnectionInfo (info.rs): scheme and host of the connection, derived    *)
(* from the forwarding headers, the Host header, or the server's own name. *)
(***************************************************************************)
HTTP == <<"h", "t", "t", "p">>
HTTPS == <<"h", "t", "t", "p", "s">>
ServerHost == <<"l">>

\* (x-forwarded-proto, host) as the client sent them
ConnHeaders ==
    { [proto |-> None, host |-> Some(<<"w", ".", "o">>)],
      [proto |-> Some(HTTPS), host |-> Some(<<"w", ".", "o">>)],
      [proto |-> None, host |-> Some(<<"w", " ", "o">>)],
      [proto |-> None, host |-> None] }

ConnectionInfoNew(headers) ==
    [scheme |-> IF headers.proto.some THEN headers.proto.v ELSE HTTP,
     host |-> IF headers.host.some THEN headers.host.v ELSE ServerHost]

(***************************************************************************)
(* url::Url::parse followed by Url::as_str, on strings over the model's    *)
(* alphabet: an http or https URL without userinfo, port, query, fragment  *)
(* or dot segments, or a string with no scheme at all.                     *)
(***************************************************************************)
Alpha == {"a", "b", "h", "i", "l", "o", "p", "s", "t", "u", "w", "y"}

HasScheme(s) ==
    LET i == IndexOf(s, ":", 1)
    IN  i > 1 /\ \A k \in 1..(i - 1) : s[k] \in Alpha

RECURSIVE SkipSlashes(_)
SkipSlashes(s) == IF starts_with(s, "/") THEN SkipSlashes(Tail(s)) ELSE s

RECURSIVE PercentEncodePath(_)
\* the path percent-encode set holds the space
PercentEncodePath(s) ==
    IF s = <<>> THEN <<>>
    ELSE (IF Head(s) = " " THEN <<"%", "2", "0">> ELSE <<Head(s)>>)
         \o PercentEncodePath(Tail(s))

url_parse(s) ==
    IF ~HasScheme(s) THEN Err("UrlParse")
    ELSE LET i == IndexOf(s, ":", 1)
             scheme == SubSeq(s, 1, i - 1)
             rest == SkipSlashes(SubSeq(s, i + 1, Len(s)))
             j == IndexOf(rest, "/", 1)
             host == IF j = 0 THEN rest ELSE SubSeq(rest, 1, j - 1)
             path == IF j = 0 THEN <<"/">> ELSE SubSeq(rest, j, Len(rest))
         IN  CASE scheme \in {HTTP, HTTPS} ->
                    IF host = <<>> \/ IndexOf(host, " ", 1) # 0
                    THEN Err("UrlParse")
                    ELSE Ok(scheme \o <<":", "/", "/">> \o host
                            \o PercentEncodePath(path))

(***************************************************************************)
(* The Cookie headers of the request, in header order.                     *)
(***************************************************************************)
CookieHeaders ==
    { <<>>,
      \* Cookie: a=1        Cookie: b=2
      << <<"a", "=", "1">>, <<"b", "=", "2">> >>,
      \* Cookie: A=1; a=2;; a=3
      << <<"A", "=", "1", ";", " ", "a", "=", "2", ";", ";", " ",
           "a", "=", "3">> >>,
      \* Cookie: a=1; bad
      << <<"a", "=", "1", ";", " ", "b", "a", "d">> >> }

CookieNames == { <<"a">>, <<"A">>, <<"z">> }

ElementLists ==
    { <<>>,
      << <<"t">> >>,
      << <<"t">>, <<"h">> >>,
      << <<"a", " ", "b">>, <<"h">> >> }

Handles == 1..handles

(***************************************************************************)
(* The requests the model starts from.  The cookie headers, the request    *)
(* target, and the pair of connection headers and router prefix are read   *)
(* by different operations, so each is varied with the others at their     *)
(* first value.                                                            *)
(***************************************************************************)
BaseCookie == <<>>
BaseUri == <<"/">>
BaseConn == [proto |-> None, host |-> Some(<<"w", ".", "o">>)]
BasePrefix == <<"/">>

Contexts ==
    { ctx \in [cookie : CookieHeaders, uri : Uris, conn : ConnHeaders,
               prefix : Prefixes] :
        \/ ctx.uri = BaseUri /\ ctx.conn = BaseConn /\ ctx.prefix = BasePrefix
        \/ ctx.cookie = BaseCookie /\ ctx.conn = BaseConn /\ ctx.prefix = BasePrefix
        \/ ctx.cookie = BaseCookie /\ ctx.uri = BaseUri }

(***************************************************************************)
(* The state after HttpRequest::from_state(msg, state).                    *)
(***************************************************************************)
Init ==
    /\ \E ctx \in Contexts :
          /\ inner_headers = [cookie |-> ctx.cookie, proto |-> ctx.conn.proto,
                              host |-> ctx.conn.host]
          /\ inner_url = ctx.uri
          /\ router = RouterNew(ctx.prefix, Routes)
    /\ inner_method = "GET"
    /\ inner_version = "HTTP/1.1"
    /\ inner_addr = None
    /\ inner_params = <<>>
    /\ inner_payload = InitialPayload
    /\ inner_extensions = [query |-> None, cookies |-> None, info |-> None]
    /\ handles = 1
    /\ taken = <<>>
    /\ last = [op |-> "from_state", kind |-> "unit"]
    /\ panicked = FALSE

(***************************************************************************)
(* HttpMessage::payload: Option::take on the shared slot.                  *)
(***************************************************************************)
\* a take that reads the slot and leaves it filled
option_take_keeps(slot) == slot

option_take(slot) == None

payload(h) ==
    /\ ~panicked
    /\ Len(taken) < MaxTaken
    /\ LET ret == IF inner_payload.some THEN inner_payload.v ELSE PayloadEmpty
       IN  /\ inner_payload' = option_take(inner_payload)
           /\ taken' = Append(taken, [h |-> h, id |-> ret.id])
           /\ last' = [op |-> "payload", h |-> h, kind |-> "payload", val |-> ret]
    /\ UNCHANGED <<context_ro, inner_extensions, handles, panicked>>

(***************************************************************************)
(* Clone for HttpRequest: one more handle on the same context.             *)
(***************************************************************************)
clone(h) ==
    /\ ~panicked
    /\ handles < MaxHandles
    /\ handles' = handles + 1
    /\ last' = [op |-> "clone", h |-> h, kind |-> "handle", val |-> handles + 1]
    /\ UNCHANGED <<context_ro, inner_payload, inner_extensions, taken, panicked>>

(***************************************************************************)
(* HttpRequest::set_read_buffer_capacity                                   *)
(***************************************************************************)
\* a hint that first puts an empty stream into a slot that has none
\* (what the commented-out payload_mut, lines 326-332, does)
payload_with_capacity_fills(slot, cap) ==
    IF slot.some THEN Some([slot.v EXCEPT !.cap = cap])
    ELSE Some([PayloadEmpty EXCEPT !.cap = cap])

\* if let Some(payload) = slot.as_mut() { payload.set_read_buffer_capacity(cap) }
payload_with_capacity(slot, cap) ==
    IF slot.some THEN Some([slot.v EXCEPT !.cap = cap]) ELSE slot

set_read_buffer_capacity(h, cap) ==
    /\ ~panicked
    /\ inner_payload' = payload_with_capacity(inner_payload, cap)
    /\ last' = [op |-> "set_read_buffer_capacity", h |-> h, cap |-> cap,
                kind |-> "unit"]
    /\ UNCHANGED <<context_ro, inner_extensions, handles, taken, panicked>>

(***************************************************************************)
(* HttpRequest::query_string                                               *)
(***************************************************************************)
query_string(h) ==
    /\ ~panicked
    /\ last' = [op |-> "query_string", h |-> h, kind |-> "str",
                val |-> query_string_of(inner_url)]
    /\ UNCHANGED <<context_ro, inner_payload, inner_extensions, handles, taken,
                   panicked>>

(***************************************************************************)
(* HttpRequest::query and HttpRequest::cookies: the bodies are             *)
(* unimplemented!(), which panics before anything is read or written.      *)
(***************************************************************************)
Panic == [kind |-> "panic"]

query_call == Panic

cookies_call == Panic

query(h) ==
    /\ ~panicked
    /\ panicked' = (query_call.kind = "panic")
    /\ last' = [op |-> "query", h |-> h, kind |-> query_call.kind]
    /\ UNCHANGED <<context_ro, inner_payload, inner_extensions, handles, taken>>

cookies(h) ==
    /\ ~panicked
    /\ panicked' = (cookies_call.kind = "panic")
    /\ last' = [op |-> "cookies", h |-> h, kind |-> cookies_call.kind]
    /\ UNCHANGED <<context_ro, inner_payload, inner_extensions, handles, taken>>

RECURSIVE first_named(_, _)
\* the loop of HttpRequest::cookie: the first cookie of the list called name
first_named(list, name) ==
    IF list = <<>> THEN None
    ELSE IF Head(list).name = name THEN Some(Head(list))
    ELSE first_named(Tail(list), name)

\* HttpRequest::cookie: if let Ok(cookies) = self.cookies() { scan }; None
cookie(h, name) ==
    /\ ~panicked
    /\ LET c == cookies_call
       IN  /\ panicked' = (c.kind = "panic")
           /\ last' =
                 IF c.kind = "panic"
                 THEN [op |-> "cookie", h |-> h, name |-> name, kind |-> "panic"]
                 ELSE [op |-> "cookie", h |-> h, name |-> name, kind |-> "option",
                       val |-> IF c.kind = "ok" THEN first_named(c.val, name)
                               ELSE None]
    /\ UNCHANGED <<context_ro, inner_payload, inner_extensions, handles, taken>>

(***************************************************************************)
(* HttpRequest::connection_info: RequestContext::connection_info computes  *)
(* the ConnectionInfo on first use and keeps it.                           *)
(***************************************************************************)
with_connection_info(ext, headers) ==
    IF ext.info.some THEN ext
    ELSE [ext EXCEPT !.info = Some(ConnectionInfoNew(headers))]

\* a connection_info that hands the cached value out and empties the slot
connection_info_takes(h) ==
    /\ ~panicked
    /\ inner_extensions' = [inner_extensions EXCEPT !.info = None]
    /\ last' = [op |-> "connection_info", h |-> h, kind |-> "info",
                val |-> with_connection_info(inner_extensions,
                                             inner_headers).info.v]
    /\ UNCHANGED <<context_ro, inner_payload, handles, taken, panicked>>

connection_info(h) ==
    /\ ~panicked
    /\ inner_extensions' = with_connection_info(inner_extensions, inner_headers)
    /\ last' = [op |-> "connection_info", h |-> h, kind |-> "info",
                val |-> inner_extensions'.info.v]
    /\ UNCHANGED <<context_ro, inner_payload, handles, taken, panicked>>

(***************************************************************************)
(* HttpRequest::url_for and HttpRequest::url_for_static                    *)
(***************************************************************************)
\* a format that writes "http" whatever the connection's scheme is
format_url_fixed_scheme(scheme, host, path) ==
    HTTP \o <<":", "/", "/">> \o host \o path

format_url(scheme, host, path) == scheme \o <<":", "/", "/">> \o host \o path

\* a url_for that reports every resolution failure as ResourceNotFound
url_for_result_one_error(name, elements, conn) ==
    LET path == resource_path(router, name, elements)
    IN  IF ~path.ok THEN Err("ResourceNotFound")
        ELSE IF starts_with(path.v, "/")
        THEN url_parse(format_url(conn.scheme, conn.host, path.v))
        ELSE url_parse(path.v)

\* a url_for that puts the request's scheme and host before every path
url_for_result_always_formats(name, elements, conn) ==
    LET path == resource_path(router, name, elements)
    IN  IF ~path.ok THEN path
        ELSE url_parse(format_url(conn.scheme, conn.host, path.v))

\* the value url_for returns, conn being what connection_info() gives
url_for_result(name, elements, conn) ==
    LET path == resource_path(router, name, elements)
    IN  IF ~path.ok THEN path
        ELSE IF starts_with(path.v, "/")
        THEN url_parse(format_url(conn.scheme, conn.host, path.v))
        ELSE url_parse(path.v)

\* a url_for that reads the connection info before it looks at the path
url_for_reads_conn_always(name, elements) == TRUE

\* whether url_for reaches its call of connection_info()
url_for_reads_conn(name, elements) ==
    LET path == resource_path(router, name, elements)
    IN  path.ok /\ starts_with(path.v, "/")

url_for_call(op, h, name, elements) ==
    /\ ~panicked
    /\ inner_extensions' =
          IF url_for_reads_conn(name, elements)
          THEN with_connection_info(inner_extensions, inner_headers)
          ELSE inner_extensions
    /\ last' = [op |-> op, name |-> name, elements |-> elements,
                kind |-> "url",
                val |-> url_for_result(name, elements,
                            with_connection_info(inner_extensions,
                                                 inner_headers).info.v)]
    /\ UNCHANGED <<context_ro, inner_payload, handles, taken, panicked>>

url_for(h, name, elements) == url_for_call("url_for", h, name, elements)

\* a list of parameters that is not empty
NO_PARAMS_one == << <<"t">> >>

NO_PARAMS == <<>>

url_for_static(h, name) == url_for_call("url_for_static", h, name, NO_PARAMS)

(***************************************************************************)
(* Debug for HttpRequest: version, method and path, then the query string  *)
(* and the path parameters when there are any, then the headers.           *)
(***************************************************************************)
fmt_text ==
    [version |-> inner_version,
     method |-> inner_method,
     path |-> uri_path(inner_url),
     query |-> IF query_string_of(inner_url) # <<>>
               THEN Some(query_string_of(inner_url)) ELSE None,
     params |-> IF inner_params # <<>> THEN Some(inner_params) ELSE None,
     headers |-> inner_headers]

\* a formatter that moves the headers out of the request as it prints them
fmt_drains(h) ==
    /\ ~panicked
    /\ last' = [op |-> "fmt", h |-> h, kind |-> "text", val |-> fmt_text]
    /\ inner_headers' = [inner_headers EXCEPT !.cookie = <<>>, !.host = None]
    /\ UNCHANGED <<inner_url, inner_method, inner_version, inner_addr,
                   inner_params, router, inner_payload, inner_extensions,
                   handles, taken, panicked>>

fmt(h) ==
    /\ ~panicked
    /\ last' = [op |-> "fmt", h |-> h, kind |-> "text", val |-> fmt_text]
    /\ UNCHANGED <<context_ro, inner_payload, inner_extensions, handles, taken,
                   panicked>>

\* url_for and url_for_static read msg and state only, which every handle
\* shares, and are recorded without their handle: a call through one handle
\* is the same step as the call through any other.
AnyHandle == CHOOSE h \in Handles : TRUE

Next ==
    \/ \E h \in Handles : payload(h)
    \/ \E h \in Handles : clone(h)
    \/ \E h \in Handles, cap \in Capacities : set_read_buffer_capacity(h, cap)
    \/ \E h \in Handles : query_string(h)
    \/ \E h \in Handles : query(h)
    \/ \E h \in Handles : cookies(h)
    \/ \E h \in Handles, name \in CookieNames : cookie(h, name)
    \/ \E h \in Handles : connection_info(h)
    \/ \E name \in RouteNames, elements \in ElementLists :
          url_for(AnyHandle, name, elements)
    \/ \E name \in RouteNames : url_for_static(AnyHandle, name)
    \/ \E h \in Handles : fmt(h)

Spec == Init /\ [][Next]_vars

(***************************************************************************)
(* What the claims expect of the cookie list and the query map.            *)
(***************************************************************************)
RECURSIVE NonEmpty(_)
NonEmpty(ss) ==
    IF ss = <<>> THEN <<>>
    ELSE (IF Head(ss) = <<>> THEN <<>> ELSE <<Head(ss)>>) \o NonEmpty(Tail(ss))

RECURSIVE TrimAll(_)
TrimAll(ss) == IF ss = <<>> THEN <<>> ELSE <<Trim(Head(ss))>> \o TrimAll(Tail(ss))

RECURSIVE CookieSegments(_)
\* the trimmed non-empty ';'-separated segments of the headers, in header order
CookieSegments(hdrs) ==
    IF hdrs = <<>> THEN <<>>
    ELSE NonEmpty(TrimAll(Split(Head(hdrs), ";"))) \o CookieSegments(Tail(hdrs))

\* a segment decodes as a cookie pair: it has a '=' after a non-empty name
WellFormedSegment(seg) == IndexOf(seg, "=", 1) > 1

AllWellFormed(hdrs) ==
    \A i \in 1..Len(CookieSegments(hdrs)) : WellFormedSegment(CookieSegments(hdrs)[i])

CookiePair(seg) ==
    LET i == IndexOf(seg, "=", 1)
    IN  [name |-> Trim(SubSeq(seg, 1, i - 1)),
         value |-> Trim(SubSeq(seg, i + 1, Len(seg)))]

ExpectedCookies(hdrs) ==
    [i \in 1..Len(CookieSegments(hdrs)) |-> CookiePair(CookieSegments(hdrs)[i])]

\* the key=value pairs of a query string, in order
QueryPairs(qs) ==
    LET pieces == NonEmpty(Split(qs, "&"))
    IN  [i \in 1..Len(pieces) |->
            LET j == IndexOf(pieces[i], "=", 1)
            IN  IF j = 0 THEN [key |-> pieces[i], value |-> <<>>]
                ELSE [key |-> SubSeq(pieces[i], 1, j - 1),
                      value |-> SubSeq(pieces[i], j + 1, Len(pieces[i]))]]

\* the map from each key to the value of its last occurrence
ExpectedQuery(qs) ==
    LET pairs == QueryPairs(qs)
        keys == {pairs[i].key : i \in 1..Len(pairs)}
        lastOf(k) == CHOOSE i \in 1..Len(pairs) :
                        /\ pairs[i].key = k
                        /\ \A j \in 1..Len(pairs) : pairs[j].key = k => j <= i
    IN  [k \in keys |-> pairs[lastOf(k)].value]

(***************************************************************************)
(* C1: over all payload() calls made through any clones of one request,    *)
(* the first call returns the body stream and every later call returns an  *)
(* empty stream; the body stream is handed out at most once.               *)
(***************************************************************************)
C1_PayloadTakenOnce ==
    /\ \A i \in 1..Len(taken) : (taken[i].id = "body") <=> (i = 1)
    /\ Cardinality({i \in 1..Len(taken) : taken[i].id = "body"}) <= 1
    /\ (taken # <<>> => ~inner_payload.some)

\* two calls through two different handles, the second one empty-handed
C1_Witness ==
    /\ Len(taken) >= 2
    /\ taken[1].h # taken[2].h
    /\ taken[1].id = "body"
    /\ taken[2].id = "empty"

(***************************************************************************)
(* C2: cookies() on any clone of a request with well-formed Cookie headers *)
(* returns the cookie list, and the list it returns is the one cached in   *)
(* the context, so that later calls on any clone reuse it.                 *)
(***************************************************************************)
C2_CookiesCachedOnce ==
    (last.op = "cookies" /\ AllWellFormed(inner_headers.cookie)) =>
        /\ last.kind = "ok"
        /\ inner_extensions.cookies = Some(last.val)

(***************************************************************************)
(* C3: when a Cookie header segment cannot be decoded, cookies() returns a *)
(* CookieParseError and stores no cookie list in the context.              *)
(***************************************************************************)
C3_CookieParseErrorNotCached ==
    (last.op = "cookies" /\ ~AllWellFormed(inner_headers.cookie)) =>
        /\ last.kind = "err"
        /\ last.val = "CookieParseError"
        /\ ~inner_extensions.cookies.some

(***************************************************************************)
(* C4: with well-formed Cookie headers, cookies() returns one entry per    *)
(* non-empty ';'-separated segment, in header order and then left to       *)
(* right, duplicates kept.                                                 *)
(***************************************************************************)
C4_CookiesInEncounterOrder ==
    (last.op = "cookies" /\ AllWellFormed(inner_headers.cookie)) =>
        /\ last.kind = "ok"
        /\ last.val = ExpectedCookies(inner_headers.cookie)

(***************************************************************************)
(* C5: cookie(name) returns the first entry of the parsed cookie list      *)
(* whose name is exactly name, and none when there is no such entry or the *)
(* headers do not parse; it never fails.                                   *)
(***************************************************************************)
C5_CookieFirstMatch ==
    last.op = "cookie" =>
        /\ last.kind = "option"
        /\ last.val = IF AllWellFormed(inner_headers.cookie)
                      THEN first_named(ExpectedCookies(inner_headers.cookie),
                                       last.name)
                      ELSE None

(***************************************************************************)
(* C6: cookies() on a request without a Cookie header succeeds with an     *)
(* empty list.                                                             *)
(***************************************************************************)
C6_NoCookiesIsEmptyList ==
    (last.op = "cookies" /\ inner_headers.cookie = <<>>) =>
        /\ last.kind = "ok"
        /\ last.val = <<>>

(***************************************************************************)
(* C7: query() returns the map from every key of the query string to its   *)
(* value, the last occurrence of a repeated key winning.                   *)
(***************************************************************************)
C7_QueryMapLastWins ==
    last.op = "query" =>
        /\ last.kind = "ok"
        /\ last.val = ExpectedQuery(query_string_of(inner_url))

(***************************************************************************)
(* C8: query_string() returns what follows the first '?' of the request    *)
(* target, and the empty string when the target has no '?'; every call, on *)
(* every clone, returns this same value.                                   *)
(***************************************************************************)
AfterQuestionMark(u) ==
    LET marks == {i \in 1..Len(u) : u[i] = "?"}
    IN  IF marks = {} THEN <<>>
        ELSE LET first == CHOOSE i \in marks : \A j \in marks : i <= j
             IN  [k \in 1..(Len(u) - first) |-> u[first + k]]

C8_QueryStringAfterMark ==
    last.op = "query_string" =>
        /\ last.kind = "str"
        /\ last.val = AfterQuestionMark(inner_url)

\* a clone asks for the query string of a target that has one
C8_Witness ==
    /\ last.op = "query_string"
    /\ last.h > 1
    /\ last.val # <<>>
    /\ last.val # inner_url

(***************************************************************************)
(* C9: url_for returns the router's error as it is: ResourceNotFound when  *)
(* no route has the name, NotEnoughElements when fewer values are supplied *)
(* than the route's pattern has variables; no URL is produced.             *)
(***************************************************************************)
VarCount(elements) == Cardinality({i \in 1..Len(elements) : elements[i].var})

C9_RouterErrorsPropagate ==
    last.op = "url_for" =>
        /\ last.name \notin DOMAIN router.routes =>
              last.val = Err("ResourceNotFound")
        /\ ( /\ last.name \in DOMAIN router.routes
             /\ Len(last.elements) < VarCount(router.routes[last.name].elements) )
           => last.val = Err("NotEnoughElements")

\* one value supplied for a pattern of two variables
C9_Witness ==
    /\ last.op = "url_for"
    /\ last.name = "index"
    /\ Len(last.elements) = 1
    /\ last.val = Err("NotEnoughElements")

(***************************************************************************)
(* C10, as claimed: when the resolved path starts with '/', url_for        *)
(* returns the string scheme "://" host path, the path being the router's  *)
(* prefix followed by the pattern with its variables replaced in order.    *)
(***************************************************************************)
ConnScheme == IF inner_headers.proto.some THEN inner_headers.proto.v ELSE HTTP
ConnHost == IF inner_headers.host.some THEN inner_headers.host.v ELSE ServerHost

\* the call resolved an internal route: the path it got
InternalPath ==
    router.prefix \o Substitute(router.routes[last.name].elements, last.elements).v

ResolvedInternal ==
    /\ last.op = "url_for"
    /\ last.name \in DOMAIN router.routes
    /\ Substitute(router.routes[last.name].elements, last.elements).ok
    /\ starts_with(resource_path(router, last.name, last.elements).v, "/")

C10_UrlIsSchemeHostPath ==
    ResolvedInternal =>
        last.val = Ok(ConnScheme \o <<":", "/", "/">> \o ConnHost \o InternalPath)

(***************************************************************************)
(* C10, amended: when the resolved path starts with '/', url_for returns   *)
(* what parsing scheme "://" host path as a URL gives: the URL in the      *)
(* parser's normal form (a space of the path written %20), or a UrlParse   *)
(* error when the string is no URL (a space in the host); the path is the  *)
(* router's prefix followed by the pattern with its variables replaced in  *)
(* order.                                                                  *)
(***************************************************************************)
C10_UrlIsParsedSchemeHostPath ==
    ResolvedInternal =>
        /\ resource_path(router, last.name, last.elements).v = InternalPath
        /\ last.val =
              IF \E i \in 1..Len(ConnHost) : ConnHost[i] = " "
              THEN Err("UrlParse")
              ELSE Ok(ConnScheme \o <<":", "/", "/">> \o ConnHost
                      \o PercentEncodePath(InternalPath))

\* an https request under a prefix builds a URL whose path needed encoding
C10_Witness ==
    /\ ResolvedInternal
    /\ last.val.ok
    /\ ConnScheme = HTTPS
    /\ router.prefix # <<>>
    /\ PercentEncodePath(InternalPath) # InternalPath

(***************************************************************************)
(* C11, as claimed: when the named route is an external absolute route,    *)
(* whose resolved value does not start with '/', url_for returns the       *)
(* resolved value itself, without the request's scheme or host.            *)
(***************************************************************************)
ResolvedPath == resource_path(router, last.name, last.elements)

ResolvedExternal ==
    /\ last.op = "url_for"
    /\ ResolvedPath.ok
    /\ ~starts_with(ResolvedPath.v, "/")

C11_ExternalUnchanged ==
    (ResolvedExternal /\ HasScheme(ResolvedPath.v)) =>
        last.val = Ok(ResolvedPath.v)

(***************************************************************************)
(* C11, amended: when the resolved value does not start with '/', url_for  *)
(* returns what parsing the resolved value as a URL gives: the URL in the  *)
(* parser's normal form (a space of the path written %20), or a UrlParse   *)
(* error when the value is no absolute URL; the request's scheme and host  *)
(* do not enter it, whatever Host header the request carries.              *)
(***************************************************************************)
C11_ExternalParsedAlone ==
    ResolvedExternal =>
        last.val = IF IndexOf(ResolvedPath.v, ":", 1) = 0
                   THEN Err("UrlParse")
                   ELSE Ok(PercentEncodePath(ResolvedPath.v))

\* an external URL comes back as it is on a request whose Host is no host
C11_Witness ==
    /\ ResolvedExternal
    /\ last.val = Ok(ResolvedPath.v)
    /\ inner_headers.host.some
    /\ IndexOf(inner_headers.host.v, " ", 1) # 0

(***************************************************************************)
(* C12: url_for_static(name) returns what url_for(name, no values) returns *)
(* on the same request, URL or error; for a pattern without variables that *)
(* is the URL of the pattern under the router's prefix.                    *)
(***************************************************************************)
C12_StaticIsUrlForNoValues ==
    last.op = "url_for_static" =>
        /\ last.val = url_for_result(last.name, <<>>,
                                     ConnectionInfoNew(inner_headers))
        /\ last.name = "static" =>
              last.val =
                 IF \E i \in 1..Len(ConnHost) : ConnHost[i] = " "
                 THEN Err("UrlParse")
                 ELSE Ok(ConnScheme \o <<":", "/", "/">> \o ConnHost
                         \o router.prefix \o <<"/", "i">>)
        /\ (last.name \in DOMAIN router.routes
            /\ VarCount(router.routes[last.name].elements) > 0) =>
              last.val = Err("NotEnoughElements")

\* the static route under a prefix gives its URL
C12_Witness ==
    /\ last.op = "url_for_static"
    /\ last.name = "static"
    /\ last.val.ok
    /\ router.prefix # <<>>

(***************************************************************************)
(* C13: set_read_buffer_capacity(n) sets the capacity of the body stream   *)
(* while the payload is still in the context and does nothing once it has  *)
(* been taken; it never removes or replaces the payload, so the slot holds *)
(* the original stream or nothing.                                         *)
(***************************************************************************)
C13_CapacityHintKeepsPayload ==
    /\ [](inner_payload.some => inner_payload.v.id = "body")
    /\ [][last'.op = "set_read_buffer_capacity" =>
            /\ inner_payload'.some = inner_payload.some
            /\ inner_payload.some =>
                  inner_payload'.v = [id |-> inner_payload.v.id,
                                      cap |-> last'.cap]
            /\ taken' = taken]_vars

\* a take after a hint returns the original stream, with the hinted capacity
C13_Witness ==
    /\ last.op = "payload"
    /\ last.val.id = "body"
    /\ last.val.cap \in Capacities

(***************************************************************************)
(* C14: each derived-value slot is empty or holds one value, and a slot    *)
(* that holds a value is never replaced or emptied by a later call on any  *)
(* clone.                                                                  *)
(***************************************************************************)
Slots == {"query", "cookies", "info"}

C15_ContextReadOnly ==
    [][UNCHANGED <<inner_headers, inner_method, inner_version, inner_url,
                   inner_addr, inner_params>>]_vars

\* the request is printed after its payload and its cache slot have changed
C15_Witness ==
    /\ last.op = "fmt"
    /\ last.h > 1
    /\ ~inner_payload.some
    /\ inner_extensions.info.some
    /\ last.val.headers = inner_headers

(***************************************************************************)
(* C16: the slots are independent: whatever the query slot holds,          *)
(* cookies() computes the cookie list when the cookie slot is empty,       *)
(* stores it in the cookie slot and returns it, and it leaves the query    *)
(* slot as it was.                                                         *)
(***************************************************************************)
C16_CookieSlotIndependent ==
    last.op = "cookies" =>
        /\ last.kind \in {"ok", "err"}
        /\ last.kind = "ok" =>
              /\ inner_extensions.cookies.some
              /\ inner_extensions.cookies.v = last.val
        /\ ~inner_extensions.query.some

(***************************************************************************)
(* C17: a url_for call reads the connection info, and so may fill its      *)
(* slot, only when the resolved path starts with '/'; a call that fails in *)
(* route resolution or resolves to an external URL leaves every cache slot *)
(* as it was, and no url_for call touches the payload.                     *)
(***************************************************************************)
C17_UrlForFrame ==
    [][last'.op \in {"url_for", "url_for_static"} =>
          LET path == resource_path(router, last'.name, last'.elements)
          IN  /\ inner_payload' = inner_payload
              /\ taken' = taken
              /\ inner_extensions'.query = inner_extensions.query
              /\ inner_extensions'.cookies = inner_extensions.cookies
              /\ (~path.ok \/ ~starts_with(path.v, "/")) =>
                    inner_extensions' = inner_extensions]_vars

\* an external URL was built and the connection info was never computed
C17_Witness ==
    /\ last.op = "url_for"
    /\ last.name = "ext"
    /\ last.val.ok
    /\ ~inner_extensions.info.some
    /\ inner_payload.some

====
